---- MODULE Spec2Model ----
(***************************************************************************)
(* Model of the .ass style editor (src/main.py).                           *)
(*                                                                         *)
(* A Python str is a sequence of one-character strings, a file is a        *)
(* sequence of lines (each line keeps its terminator, as readlines does).  *)
(* A call that can raise returns a record [ok, val] / [ok, err].           *)
(***************************************************************************)
EXTENDS Integers, Sequences, FiniteSets, TLC

VARIABLES
    pc,                 \* position of the run
    disk,               \* content of the file at file_path: a sequence of lines
    orig,               \* the content the file had when the run started
    nwrites,            \* number of open(file_path, "w") so far
    search_type,        \* main: search_type
    chosen_styles,      \* main: chosen_styles
    replace_type,       \* replace_style_attributes_prompt: replace_type
    replacements,       \* replace_style_attributes: replacements (dict index -> str)
    lines,              \* replace_style_attributes: lines
    pos,                \* replace_style_attributes: number of lines the for loop has consumed
    in_styles_section,  \* replace_style_attributes: in_styles_section
    updated_lines,      \* replace_style_attributes: updated_lines
    font_name,          \* get_styles_by_font / get_most_frequent_styles: font_name
    styles,             \* get_styles_by_font / get_most_frequent_styles: styles
    error,              \* the exception that ended the run, or "none"
    hex_color,          \* hex_to_ass_color: its argument
    hex_result          \* hex_to_ass_color: its outcome

vars == <<pc, disk, orig, nwrites, search_type, chosen_styles, replace_type,
          replacements, lines, pos, in_styles_section, updated_lines,
          font_name, styles, error,
          hex_color, hex_result>>

-----------------------------------------------------------------------------
(* Bounds *)

MaxHashes == 2
MaxHexLen == 7
MaxLines == 3
MaxApplyLines == 4

-----------------------------------------------------------------------------
(* Python str operations *)

NL == "\n"
Whitespace == {" ", NL, "\t"}

Lower == <<"a","b","c","d","e","f","g","h","i","j","k","l","m",
           "n","o","p","q","r","s","t","u","v","w","x","y","z">>
Capital == <<"A","B","C","D","E","F","G","H","I","J","K","L","M",
             "N","O","P","Q","R","S","T","U","V","W","X","Y","Z">>

\* str.upper on one character
upperChar(c) ==
    IF \E i \in 1..26 : Lower[i] = c
    THEN Capital[CHOOSE i \in 1..26 : Lower[i] = c]
    ELSE c

\* str.upper
upper(s) == [i \in 1..Len(s) |-> upperChar(s[i])]

\* str.startswith
startswith(s, p) == Len(s) >= Len(p) /\ SubSeq(s, 1, Len(p)) = p

\* str.lstrip(chars): drop the longest prefix made of characters of chars
RECURSIVE lstrip(_, _)
lstrip(s, chars) ==
    IF s # <<>> /\ Head(s) \in chars THEN lstrip(Tail(s), chars) ELSE s

RECURSIVE rstrip(_, _)
rstrip(s, chars) ==
    IF s # <<>> /\ s[Len(s)] \in chars THEN rstrip(SubSeq(s, 1, Len(s) - 1), chars) ELSE s

\* str.strip()
strip(s) == rstrip(lstrip(s, Whitespace), Whitespace)

\* str.split(sep) for a one-character sep: always at least one part
RECURSIVE split(_, _)
split(s, sep) ==
    IF \E i \in 1..Len(s) : s[i] = sep
    THEN LET i == CHOOSE k \in 1..Len(s) : s[k] = sep /\ \A j \in 1..(k - 1) : s[j] # sep
         IN <<SubSeq(s, 1, i - 1)>> \o split(SubSeq(s, i + 1, Len(s)), sep)
    ELSE <<s>>

\* sep.join(parts)
RECURSIVE join(_, _)
join(parts, sep) ==
    IF parts = <<>> THEN <<>>
    ELSE IF Len(parts) = 1 THEN parts[1]
    ELSE parts[1] \o <<sep>> \o join(Tail(parts), sep)

\* sub in s
contains(s, sub) ==
    \E i \in 0..(Len(s) - Len(sub)) : SubSeq(s, i + 1, i + Len(sub)) = sub

-----------------------------------------------------------------------------
(* StyleModifier.hex_to_ass_color and HexCodeValidator *)

Ok(v) == [ok |-> TRUE, val |-> v]
Raise(e) == [ok |-> FALSE, err |-> e]

HexDigits == {"0","1","2","3","4","5","6","7","8","9",
              "a","b","c","d","e","f","A","B","C","D","E","F"}

AmpH00 == <<"&", "H", "0", "0">>

\* hex_to_ass_color with the byte pairs left in the order of the input
hex_to_ass_color_rgb(h) ==
    LET s == lstrip(h, {"#"})
    IN IF Len(s) # 6
       THEN Raise("ValueError")
       ELSE Ok(upper(AmpH00 \o s))

hex_to_ass_color(h) ==
    LET s == lstrip(h, {"#"})
    IN IF Len(s) # 6
       THEN Raise("ValueError")
       ELSE Ok(upper(AmpH00 \o SubSeq(s, 5, 6) \o SubSeq(s, 3, 4) \o SubSeq(s, 1, 2)))

\* HexCodeValidator.validate: TRUE when the text is accepted
HexCodeValidator(text) ==
    \/ text = <<>>
    \/ LET hex_code == lstrip(text, {"#"})
       IN Len(hex_code) = 6 /\ \A i \in 1..6 : hex_code[i] \in HexDigits

-----------------------------------------------------------------------------
(* The file format: the lines the model's files are made of *)

StylesHeader == <<"[","V","4","+"," ","S","t","y","l","e","s","]">>
StyleMarker == <<"S","t","y","l","e",":">>
Bracket == <<"[">>
Comma == ","
Hash == <<"#">>

\* "[V4+ Styles]\n"
LineHeader == StylesHeader \o <<NL>>
\* " [V4+ Styles]\n": the header, indented
LineHeaderPadded == <<" ">> \o LineHeader
\* " [E]\n": another section's header, indented
LineEvents == <<" ", "[", "E", "]", NL>>
\* "[E]\n"
LineEventsPlain == <<"[", "E", "]", NL>>
\* "Style:a,X,1,c,0\n", "Style:b,Y,1,c,0\n", "Style:e,X,1,c,0\n": name, font, size, colour, flag
LineStyleA == StyleMarker \o <<"a", ",", "X", ",", "1", ",", "c", ",", "0", NL>>
LineStyleB == StyleMarker \o <<"b", ",", "Y", ",", "1", ",", "c", ",", "0", NL>>
LineStyleE == StyleMarker \o <<"e", ",", "X", ",", "1", ",", "c", ",", "0", NL>>
\* "Style:d,X\n": a style line with two fields only
LineStyleShort == StyleMarker \o <<"d", ",", "X", NL>>
\* "Style:n\n": a style line with no comma at all
LineStyleNoComma == StyleMarker \o <<"n", NL>>
\* "; x\n": a comment
LineComment == <<";", " ", "x", NL>>

\* All sequences over S of length at most n
SeqUpTo(S, n) == UNION {[1..k -> S] : k \in 0..n}

-----------------------------------------------------------------------------
(* ASSFile *)

StyleLines(ls) == SelectSeq(ls, LAMBDA line : startswith(line, StyleMarker))

\* ASSFile.get_fonts on a file whose lines are ls: the list of <<font, line>>,
\* or IndexError when a "Style:" line has no comma (split(",")[1])
get_fonts(ls) ==
    LET sl == StyleLines(ls)
    IN IF \E k \in 1..Len(sl) : Len(split(sl[k], Comma)) < 2
       THEN Raise("IndexError")
       ELSE Ok([k \in 1..Len(sl) |-> <<strip(split(sl[k], Comma)[2]), sl[k]>>])

\* ASSFile.find_styles_by_font, given the list get_fonts returned
find_styles_by_font(fonts, name) ==
    LET hit == SelectSeq(fonts, LAMBDA t : t[1] = name)
    IN [k \in 1..Len(hit) |-> hit[k][2]]

\* The keys of font_counts in insertion order: each font at its first occurrence
RECURSIVE font_keys(_)
font_keys(fonts) ==
    IF fonts = <<>> THEN <<>>
    ELSE LET init == font_keys(SubSeq(fonts, 1, Len(fonts) - 1))
             f == fonts[Len(fonts)][1]
         IN IF \E k \in 1..Len(init) : init[k] = f THEN init ELSE Append(init, f)

\* font_counts[f] once the loop of lines 41-42 has ended
font_count(fonts, f) == Cardinality({k \in 1..Len(fonts) : fonts[k][1] = f})

\* max_by_count with >= for >: the last of the greatest keys wins
RECURSIVE max_by_count_last(_, _, _)
max_by_count_last(best, keys, fonts) ==
    IF keys = <<>> THEN best
    ELSE IF font_count(fonts, Head(keys)) >= font_count(fonts, best)
         THEN max_by_count_last(Head(keys), Tail(keys), fonts)
         ELSE max_by_count_last(best, Tail(keys), fonts)

\* max(keys, key=font_counts.get): the keys are taken in order and a key
\* replaces the best so far only when its count is strictly greater
RECURSIVE max_by_count(_, _, _)
max_by_count(best, keys, fonts) ==
    IF keys = <<>> THEN best
    ELSE IF font_count(fonts, Head(keys)) > font_count(fonts, best)
         THEN max_by_count(Head(keys), Tail(keys), fonts)
         ELSE max_by_count(best, Tail(keys), fonts)

\* ASSFile.find_most_frequent_font, given the list get_fonts returned;
\* max of an empty dict raises ValueError
find_most_frequent_font(fonts) ==
    LET keys == font_keys(fonts)
    IN IF keys = <<>>
       THEN Raise("ValueError")
       ELSE Ok(max_by_count(Head(keys), Tail(keys), fonts))

\* line in chosen_styles (a list)
InList(line, list) == \E k \in 1..Len(list) : list[k] = line

\* next_in_styles_section on the raw line, not on line.strip()
next_in_styles_section_raw(flag, line) ==
    IF startswith(line, StylesHeader) THEN TRUE
    ELSE IF startswith(line, Bracket) /\ flag THEN FALSE
    ELSE flag

\* Lines 64-67: the section flag after the loop body has seen line
next_in_styles_section(flag, line) ==
    IF startswith(strip(line), StylesHeader) THEN TRUE
    ELSE IF startswith(strip(line), Bracket) /\ flag THEN FALSE
    ELSE flag

\* eligible without the section flag
eligible_anywhere(flag, line, chosen) ==
    startswith(line, StyleMarker) /\ InList(line, chosen)

\* Line 69: the line is rewritten
eligible(flag, line, chosen) ==
    flag /\ startswith(line, StyleMarker) /\ InList(line, chosen)

\* applied with "key" for "key.strip()"
applied_unstripped(repl, n) == {i \in DOMAIN repl : i < n /\ repl[i] # <<>>}

\* Line 72: the dict entries that are applied to a line with n parts
applied(repl, n) == {i \in DOMAIN repl : i < n /\ strip(repl[i]) # <<>>}

\* Lines 70-74: the rewritten line, or the ValueError of hex_to_ass_color
rewrite_line(line, repl) ==
    LET parts == split(line, Comma)
        app == applied(repl, Len(parts))
        colours == {i \in app : startswith(repl[i], Hash)}
    IN IF \E i \in colours : ~hex_to_ass_color(repl[i]).ok
       THEN Raise("ValueError")
       ELSE Ok(join([k \in 1..Len(parts) |->
                       IF (k - 1) \in colours THEN hex_to_ass_color(repl[k - 1]).val
                       ELSE IF (k - 1) \in app THEN repl[k - 1]
                       ELSE parts[k]], Comma))

\* Lines 63-76: one pass of the loop body; the line appended, or the error
loop_body(flag, line, chosen, repl) ==
    IF eligible(next_in_styles_section(flag, line), line, chosen)
    THEN rewrite_line(line, repl)
    ELSE Ok(line)

\* Lines 60-76: the whole loop from (flag, done), done the lines appended so far
RECURSIVE run_loop(_, _, _, _, _)
run_loop(flag, done, rest, chosen, repl) ==
    IF rest = <<>> THEN Ok(done)
    ELSE LET r == loop_body(flag, Head(rest), chosen, repl)
         IN IF r.ok
            THEN run_loop(next_in_styles_section(flag, Head(rest)),
                          Append(done, r.val), Tail(rest), chosen, repl)
            ELSE r

-----------------------------------------------------------------------------
(* What the user, or the command line, supplies *)

FontX == <<"X">>
FontY == <<"Y">>
FontZ == <<"Z">>
FontV == <<"V">>
Blank == <<" ">>
AllStyles == <<"A", "l", "l", " ", "s", "t", "y", "l", "e", "s">>
ColourGood == <<"#", "1", "a", "2", "b", "3", "c">>
ColourShort == <<"#", "1", "2">>
ColourNonHex == <<"#", "G", "G", "H", "H", "I", "I">>
FontWithComma == <<"V", ",", "W">>
Two == <<"2">>

FontNames == {FontX, FontY, FontZ}
NewFonts == {<<>>, FontV}
NewColours == {<<>>, ColourGood, ColourShort}

\* StyleModifier.get_replacements: the dict built from the values given,
\* vals[i] the value of the i-th prompt or argument
get_replacements(rtype, vals) ==
    IF rtype = "font_name"
    THEN [i \in {1} |-> vals[1]]
    ELSE [i \in {k \in DOMAIN vals : strip(vals[k]) # <<>>} |-> vals[i]]

\* The values of the twelve prompts, all skipped but font and primary colour
Answers(font, colour) ==
    [i \in 1..12 |-> IF i = 1 THEN font ELSE IF i = 3 THEN colour ELSE <<>>]

\* UserInteraction.select_style: the choices offered
style_name(line) == strip(split(split(line, Comma)[1], ":")[2])
select_choices(sts) == {AllStyles} \cup {style_name(sts[k]) : k \in 1..Len(sts)}

\* UserInteraction.select_style: the styles returned for a selection;
\* next(s for s in styles if selection in s) is the first line holding the
\* selection as a substring
select_style(sts, selection) ==
    IF selection = AllStyles THEN sts
    ELSE LET k == CHOOSE i \in 1..Len(sts) :
                     /\ contains(sts[i], selection)
                     /\ \A j \in 1..(i - 1) : ~contains(sts[j], selection)
         IN <<sts[k]>>

-----------------------------------------------------------------------------
(* The run of main() *)

FilePool == {LineHeader, LineEventsPlain, LineStyleA, LineStyleB, LineStyleE,
             LineStyleNoComma, LineComment}
Files == SeqUpTo(FilePool, MaxLines)

Prompts == {"get_file_path", "get_search_type", "get_font_name", "select_style",
            "get_replace_type", "get_replacements"}

Idle ==
    /\ replacements = <<>>
    /\ lines = <<>>
    /\ pos = 0
    /\ in_styles_section = FALSE
    /\ updated_lines = <<>>
    /\ hex_color = <<>>
    /\ hex_result = Ok(<<>>)

Init ==
    /\ pc = "get_file_path"
    /\ disk \in Files
    /\ orig = disk
    /\ nwrites = 0
    /\ search_type = "none"
    /\ chosen_styles = <<>>
    /\ replace_type = "none"
    /\ font_name = <<>>
    /\ styles = <<>>
    /\ error = "none"
    /\ Idle

\* An exception leaves main(); KeyboardInterrupt is caught at line 225
Fail(e) ==
    /\ pc' = IF e = "KeyboardInterrupt" THEN "cancelled" ELSE "crashed"
    /\ error' = e

\* Line 9: the path comes from the arguments or from the prompt
GetFilePath ==
    /\ pc = "get_file_path"
    /\ pc' = "get_search_type"
    /\ UNCHANGED <<disk, orig, nwrites, search_type, chosen_styles, replace_type,
                   replacements, lines, pos, in_styles_section, updated_lines,
                   font_name, styles, error, hex_color, hex_result>>

\* Line 12
GetSearchType ==
    /\ pc = "get_search_type"
    /\ \E st \in {"font_name", "most_frequent", "all_styles"} :
          /\ search_type' = st
          /\ pc' = IF st = "font_name" THEN "get_font_name" ELSE "get_chosen_styles"
    /\ UNCHANGED <<disk, orig, nwrites, chosen_styles, replace_type,
                   replacements, lines, pos, in_styles_section, updated_lines,
                   font_name, styles, error, hex_color, hex_result>>

\* Lines 120 and 127: one style (or none) is taken as it is, several are offered
Offer(sts) ==
    /\ styles' = sts
    /\ IF Len(sts) > 1
       THEN pc' = "select_style" /\ UNCHANGED chosen_styles
       ELSE pc' = "get_replace_type" /\ chosen_styles' = sts

\* Lines 111-120: get_styles_by_font
GetStylesByFont ==
    /\ pc = "get_font_name"
    /\ LET fonts == get_fonts(disk)
       IN IF ~fonts.ok
          THEN Fail(fonts.err) /\ UNCHANGED <<font_name, styles, chosen_styles>>
          ELSE \E name \in FontNames :
                  /\ font_name' = name
                  /\ Offer(find_styles_by_font(fonts.val, name))
                  /\ UNCHANGED error
    /\ UNCHANGED <<disk, orig, nwrites, search_type, replace_type,
                   replacements, lines, pos, in_styles_section, updated_lines,
                   hex_color, hex_result>>

\* Lines 123-127: get_most_frequent_styles
GetMostFrequentStyles ==
    /\ pc = "get_chosen_styles"
    /\ search_type = "most_frequent"
    /\ LET fonts == get_fonts(disk)
           name == find_most_frequent_font(fonts.val)
       IN IF ~fonts.ok
          THEN Fail(fonts.err) /\ UNCHANGED <<font_name, styles, chosen_styles>>
          ELSE IF ~name.ok
          THEN Fail(name.err) /\ UNCHANGED <<font_name, styles, chosen_styles>>
          ELSE /\ font_name' = name.val
               /\ Offer(find_styles_by_font(fonts.val, name.val))
               /\ UNCHANGED error
    /\ UNCHANGED <<disk, orig, nwrites, search_type, replace_type,
                   replacements, lines, pos, in_styles_section, updated_lines,
                   hex_color, hex_result>>

\* Line 108: all styles
GetAllStyles ==
    /\ pc = "get_chosen_styles"
    /\ search_type = "all_styles"
    /\ LET fonts == get_fonts(disk)
       IN IF ~fonts.ok
          THEN Fail(fonts.err) /\ UNCHANGED chosen_styles
          ELSE /\ chosen_styles' = [k \in 1..Len(fonts.val) |-> fonts.val[k][2]]
               /\ pc' = "get_replace_type"
               /\ UNCHANGED error
    /\ UNCHANGED <<disk, orig, nwrites, search_type, replace_type,
                   replacements, lines, pos, in_styles_section, updated_lines,
                   font_name, styles, hex_color, hex_result>>

\* Lines 130-140
SelectStyle ==
    /\ pc = "select_style"
    /\ \E selection \in select_choices(styles) :
          chosen_styles' = select_style(styles, selection)
    /\ pc' = "get_replace_type"
    /\ UNCHANGED <<disk, orig, nwrites, search_type, replace_type,
                   replacements, lines, pos, in_styles_section, updated_lines,
                   font_name, styles, error, hex_color, hex_result>>

\* GetReplaceType in a program that opens the file for writing before it asks
GetReplaceTypeFileOpened ==
    /\ pc = "get_replace_type"
    /\ \E rt \in {"font_name", "everything"} : replace_type' = rt
    /\ pc' = "get_replacements"
    /\ disk' = <<>>
    /\ nwrites' = nwrites + 1
    /\ UNCHANGED <<orig, search_type, chosen_styles,
                   replacements, lines, pos, in_styles_section, updated_lines,
                   font_name, styles, error, hex_color, hex_result>>

\* Lines 144-147
GetReplaceType ==
    /\ pc = "get_replace_type"
    /\ \E rt \in {"font_name", "everything"} : replace_type' = rt
    /\ pc' = "get_replacements"
    /\ UNCHANGED <<disk, orig, nwrites, search_type, chosen_styles,
                   replacements, lines, pos, in_styles_section, updated_lines,
                   font_name, styles, error, hex_color, hex_result>>

\* Line 148
GetReplacements ==
    /\ pc = "get_replacements"
    /\ \E font \in NewFonts, colour \in NewColours :
          replacements' = get_replacements(replace_type, Answers(font, colour))
    /\ pc' = "replace_style_attributes"
    /\ UNCHANGED <<disk, orig, nwrites, search_type, chosen_styles, replace_type,
                   lines, pos, in_styles_section, updated_lines,
                   font_name, styles, error, hex_color, hex_result>>

\* Lines 57-79, called at line 149: the file is read, every line goes through
\* the loop, and only then is the file opened for writing
ReplaceStyleAttributes ==
    /\ pc = "replace_style_attributes"
    /\ LET r == run_loop(FALSE, <<>>, disk, chosen_styles, replacements)
       IN IF r.ok
          THEN /\ disk' = r.val
               /\ nwrites' = nwrites + 1
               /\ pc' = "done"
               /\ UNCHANGED error
          ELSE Fail(r.err) /\ UNCHANGED <<disk, nwrites>>
    /\ UNCHANGED <<orig, search_type, chosen_styles, replace_type,
                   replacements, lines, pos, in_styles_section, updated_lines,
                   font_name, styles, hex_color, hex_result>>

\* KeyboardInterrupt while a prompt waits (unsafe_ask), caught at line 225
Cancel ==
    /\ pc \in Prompts
    /\ Fail("KeyboardInterrupt")
    /\ UNCHANGED <<disk, orig, nwrites, search_type, chosen_styles, replace_type,
                   replacements, lines, pos, in_styles_section, updated_lines,
                   font_name, styles, hex_color, hex_result>>

Next ==
    \/ GetFilePath
    \/ GetSearchType
    \/ GetStylesByFont
    \/ GetMostFrequentStyles
    \/ GetAllStyles
    \/ SelectStyle
    \/ GetReplaceType
    \/ GetReplacements
    \/ ReplaceStyleAttributes
    \/ Cancel

Spec == Init /\ [][Next]_vars

-----------------------------------------------------------------------------
(* replace_style_attributes called on its own, one line of the loop at a time *)

ApplyPool == {LineHeader, LineHeaderPadded, LineEvents, LineStyleA, LineStyleShort}
ApplyFiles == SeqUpTo(ApplyPool, MaxApplyLines)
ApplyChosen == {<<LineStyleA>>, <<LineStyleA, LineStyleShort>>}

\* dicts index -> value
Dict1(i, v) == [k \in {i} |-> v]
Dict2(i, v, j, w) == [k \in {i, j} |-> IF k = i THEN v ELSE w]
Dict3(i, v, j, w, l, x) == [k \in {i, j, l} |-> IF k = i THEN v ELSE IF k = j THEN w ELSE x]
ApplySpecs == {<<>>,
               Dict1(1, Blank),
               Dict3(1, Blank, 3, ColourGood, 12, Two),
               Dict2(1, FontV, 3, ColourShort),
               Dict2(1, FontWithComma, 3, ColourNonHex)}

InitApply ==
    /\ pc = "read"
    /\ disk \in ApplyFiles
    /\ orig = disk
    /\ nwrites = 0
    /\ search_type = "none"
    /\ chosen_styles \in ApplyChosen
    /\ replace_type = "none"
    /\ replacements \in ApplySpecs
    /\ lines = <<>>
    /\ pos = 0
    /\ in_styles_section = FALSE
    /\ updated_lines = <<>>
    /\ font_name = <<>>
    /\ styles = <<>>
    /\ error = "none"
    /\ hex_color = <<>>
    /\ hex_result = Ok(<<>>)

\* Lines 57-61
ReadLines ==
    /\ pc = "read"
    /\ lines' = disk
    /\ pos' = 0
    /\ in_styles_section' = FALSE
    /\ updated_lines' = <<>>
    /\ pc' = "loop"
    /\ UNCHANGED <<disk, orig, nwrites, search_type, chosen_styles, replace_type,
                   replacements, font_name, styles, error, hex_color, hex_result>>

\* Lines 63-76: the loop body on the next line
LoopBody ==
    /\ pc = "loop"
    /\ pos < Len(lines)
    /\ LET line == lines[pos + 1]
           r == loop_body(in_styles_section, line, chosen_styles, replacements)
       IN IF r.ok
          THEN /\ in_styles_section' = next_in_styles_section(in_styles_section, line)
               /\ updated_lines' = Append(updated_lines, r.val)
               /\ pos' = pos + 1
               /\ UNCHANGED <<pc, error>>
          ELSE /\ pc' = "crashed"
               /\ error' = r.err
               /\ UNCHANGED <<in_styles_section, updated_lines, pos>>
    /\ UNCHANGED <<disk, orig, nwrites, search_type, chosen_styles, replace_type,
                   replacements, lines, font_name, styles, hex_color, hex_result>>

\* Lines 78-79
WriteLines ==
    /\ pc = "loop"
    /\ pos = Len(lines)
    /\ disk' = updated_lines
    /\ nwrites' = nwrites + 1
    /\ pc' = "done"
    /\ UNCHANGED <<orig, search_type, chosen_styles, replace_type, replacements,
                   lines, pos, in_styles_section, updated_lines,
                   font_name, styles, error, hex_color, hex_result>>

NextApply == ReadLines \/ LoopBody \/ WriteLines

SpecApply == InitApply /\ [][NextApply]_vars

-----------------------------------------------------------------------------
(* hex_to_ass_color called on its own *)

HexChars == {"1", "a", "G"}
Hashes(n) == [i \in 1..n |-> "#"]
HexInputs == {Hashes(n) \o body : n \in 0..MaxHashes, body \in SeqUpTo(HexChars, MaxHexLen)}

InitColor ==
    /\ pc = "hex_call"
    /\ hex_color \in HexInputs
    /\ hex_result = Ok(<<>>)
    /\ disk = <<>>
    /\ orig = <<>>
    /\ nwrites = 0
    /\ search_type = "none"
    /\ chosen_styles = <<>>
    /\ replace_type = "none"
    /\ replacements = <<>>
    /\ lines = <<>>
    /\ pos = 0
    /\ in_styles_section = FALSE
    /\ updated_lines = <<>>
    /\ font_name = <<>>
    /\ styles = <<>>
    /\ error = "none"

\* Lines 175-181
HexToAssColor ==
    /\ pc = "hex_call"
    /\ hex_result' = hex_to_ass_color(hex_color)
    /\ pc' = "hex_return"
    /\ UNCHANGED <<disk, orig, nwrites, search_type, chosen_styles, replace_type,
                   replacements, lines, pos, in_styles_section, updated_lines,
                   font_name, styles, error, hex_color>>

NextColor == HexToAssColor

SpecColor == InitColor /\ [][NextColor]_vars

-----------------------------------------------------------------------------
(* What the properties are stated with *)

\* Exactly six hexadecimal digits
IsHex6(s) == Len(s) = 6 /\ \A i \in 1..6 : s[i] \in HexDigits

\* "#RRGGBB" or "RRGGBB"
ValidHexInput(h) ==
    \/ IsHex6(h)
    \/ Len(h) = 7 /\ h[1] = "#" /\ IsHex6(Tail(h))

\* The six digits of a valid input
SixDigits(h) == IF Len(h) = 7 THEN Tail(h) ELSE h

\* The upper-case form of a hexadecimal digit
HexUpper(c) ==
    CASE c = "a" -> "A" [] c = "b" -> "B" [] c = "c" -> "C"
      [] c = "d" -> "D" [] c = "e" -> "E" [] c = "f" -> "F"
      [] OTHER -> c

\* The trimmed line starts with "["
IsBracketLine(line) == strip(line) # <<>> /\ strip(line)[1] = "["

\* The trimmed line starts the style section's header
IsHeaderLine(line) ==
    /\ Len(strip(line)) >= Len(StylesHeader)
    /\ \A i \in 1..Len(StylesHeader) : strip(line)[i] = StylesHeader[i]

\* The most recent "["-starting line among ls[1..k] is a style header
InsideAt(ls, k) ==
    \E j \in 1..k :
        /\ IsHeaderLine(ls[j])
        /\ \A m \in (j + 1)..k : ~IsBracketLine(ls[m])

\* Line k of ls is inside the style section, begins with "Style:" and is one
\* of the chosen lines
EligibleAt(ls, k, chosen) ==
    /\ InsideAt(ls, k)
    /\ startswith(ls[k], StyleMarker)
    /\ \E c \in 1..Len(chosen) : chosen[c] = ls[k]

HasComma(s) == \E i \in 1..Len(s) : s[i] = Comma

\* The loop of replace_style_attributes has started
InLoop == pc \in {"loop", "done", "crashed"}

-----------------------------------------------------------------------------
(* Properties *)

\* C1: replace_style_attributes keeps the length and order of the lines, and
\* a line it has appended differs from the input line at the same position
\* only if that line is inside the style section, begins with "Style:" and
\* equals a chosen line; what is written to the file is that sequence.
C1_FrameEffect ==
    InLoop =>
        /\ Len(updated_lines) = pos
        /\ lines = orig
        /\ \A k \in 1..pos :
              updated_lines[k] # lines[k] => EligibleAt(lines, k, chosen_styles)
        /\ pc = "done" => disk = updated_lines /\ Len(disk) = Len(orig)

\* C1 witness: a run that ended with a chosen line rewritten inside the
\* section and the same chosen text left alone outside it
C1_Witness ==
    /\ pc = "done"
    /\ \E k, j \in 1..Len(orig) :
          /\ disk[k] # orig[k]
          /\ orig[j] = orig[k]
          /\ ~InsideAt(orig, j)
          /\ disk[j] = orig[j]

\* C2: whenever the replacement spec holds a '#'-prefixed value that is not
\* '#' and six hexadecimal digits, the operation fails, no line is rewritten
\* and the file is left untouched (stated for the files that hold a chosen
\* "Style:" line inside the style section).
C2_AtomicValidation ==
    (/\ \E i \in DOMAIN replacements :
           /\ startswith(replacements[i], Hash)
           /\ ~IsHex6(Tail(replacements[i]))
     /\ \E k \in 1..Len(orig) : EligibleAt(orig, k, chosen_styles))
    => /\ pc # "done"
       /\ disk = orig
       /\ \A k \in 1..Len(updated_lines) : updated_lines[k] = lines[k]

\* C3: for a valid input "#RRGGBB" or "RRGGBB", hex_to_ass_color returns
\* "&H" followed by "00", BB, GG, RR of the input in upper case.
C3_NativeEncoding ==
    (pc = "hex_return" /\ ValidHexInput(hex_color)) =>
        LET d == SixDigits(hex_color)
        IN hex_result = Ok(<<"&", "H", "0", "0",
                             HexUpper(d[5]), HexUpper(d[6]),
                             HexUpper(d[3]), HexUpper(d[4]),
                             HexUpper(d[1]), HexUpper(d[2])>>)

\* C3 witness: "#11aa1a" has been converted to "&H001AAA11"
C3_Witness ==
    /\ pc = "hex_return"
    /\ hex_color = <<"#", "1", "1", "a", "a", "1", "a">>
    /\ hex_result = Ok(<<"&", "H", "0", "0", "1", "A", "A", "A", "1", "1">>)

\* C4: hex_to_ass_color fails for every input that, after an optional
\* leading '#' is stripped, is not exactly six hexadecimal digits.
C4_RejectsInvalid ==
    (pc = "hex_return" /\ ~ValidHexInput(hex_color)) => ~hex_result.ok

\* C5: every record offered for selection is a "Style:" line that lies
\* inside the style section of the file.
C5_RecordsInsideSection ==
    pc \in {"select_style", "get_replace_type"} =>
        LET offered == IF pc = "select_style" THEN styles ELSE chosen_styles
        IN \A c \in 1..Len(offered) :
              \E k \in 1..Len(orig) : orig[k] = offered[c] /\ InsideAt(orig, k)

\* C6: a malformed "Style:" line (one that cannot be split into fields, such
\* as a line with no comma) is silently left out of the scan: the scan never
\* raises an error.
C6_MalformedNeverRaise ==
    error # "IndexError"

\* C7: find_most_frequent_font returns a font with the greatest record count
\* and, among the fonts that tie for it, the one that occurs first.
C7_MostFrequentFirst ==
    (search_type = "most_frequent" /\ pc \in {"select_style", "get_replace_type"}) =>
        LET recs == StyleLines(orig)
            font(k) == strip(split(recs[k], Comma)[2])
            count(f) == Cardinality({k \in 1..Len(recs) : font(k) = f})
        IN /\ \E k \in 1..Len(recs) : font(k) = font_name
           /\ \A k \in 1..Len(recs) :
                 /\ count(font(k)) <= count(font_name)
                 /\ count(font(k)) = count(font_name) =>
                       \E j \in 1..k : font(j) = font_name

\* C7 witness: two fonts tie and the one met first, which is not the first
\* in alphabetical order, has been returned
C7_Witness ==
    /\ search_type = "most_frequent"
    /\ pc = "get_replace_type"
    /\ orig = <<LineStyleB, LineStyleA>>
    /\ font_name = FontY

\* C8: the file is written once at most, only when every prompt has
\* completed; while a prompt is pending and after a cancellation the file
\* is what it was when the run started.
C8_WriteAfterPrompts ==
    /\ nwrites <= 1
    /\ nwrites = 1 => pc = "done"
    /\ pc # "done" => disk = orig /\ nwrites = 0

\* C8 witness: the run was cancelled at the last prompt, with styles chosen
\* and the replace type given
C8_Witness ==
    /\ pc = "cancelled"
    /\ chosen_styles # <<>>
    /\ replace_type = "everything"

\* The field the spec of C9 asks for at index i of a rewritten line, the
\* value skipped when skip(value) holds
WantedField(i, old, skip(_)) ==
    IF i \in DOMAIN replacements /\ ~skip(replacements[i])
    THEN IF replacements[i][1] = "#"
         THEN hex_to_ass_color(replacements[i]).val
         ELSE replacements[i]
    ELSE old

IsEmpty(v) == v = <<>>
IsBlank(v) == \A i \in 1..Len(v) : v[i] \in Whitespace

C10_SectionFlag ==
    InLoop =>
        /\ in_styles_section <=> (pos >= 1 /\ InsideAt(lines, pos))
        /\ \A k \in 1..Len(updated_lines) :
              EligibleAt(lines, k, chosen_styles) =>
                  updated_lines[k] = rewrite_line(lines[k], replacements).val

\* C10 witness: the section was left and entered again, by an indented
\* header, and a chosen line of the second occurrence was rewritten
C10_Witness ==
    /\ pc = "done"
    /\ \E a, b, c, k \in 1..Len(lines) :
          /\ a < b /\ b < c /\ c < k
          /\ IsHeaderLine(lines[a])
          /\ IsBracketLine(lines[b]) /\ ~IsHeaderLine(lines[b])
          /\ lines[c] = LineHeaderPadded
          /\ updated_lines[k] # lines[k]

====
